---- MODULE Spec2Model ----
(***************************************************************************)
(* State-machine model of the blog application of main.py / forms.py:      *)
(* the three tables (users, blog_posts, comments), the per-browser login   *)
(* session, the outbound mail box, and one action per HTTP route.  Every   *)
(* request is one atomic step (one handler run, commit included).          *)
(***************************************************************************)
EXTENDS Integers, Sequences, FiniteSets, TLC

VARIABLES users, posts, comments, session, outbox, resp

vars == <<users, posts, comments, session, outbox, resp>>

(***************************************************************************)
(* Bounds of the model.                                                    *)
(***************************************************************************)
MaxUsers == 2
MaxPosts == 2
MaxComments == 1
MaxMail == 1

(***************************************************************************)
(* Input alphabets: the values a request may carry.  Each form is drawn    *)
(* from its well-formed submissions plus one submission per way of failing *)
(* validation (a GET, a POST without CSRF token, one field at a time bad). *)
(***************************************************************************)
Clients == {"c1"}
WellFormedEmails == {"a@x.co", "b@x.co"}
WellFormedUrls == {"http://i.co/a.png"}
Salts == {"s1"}
\* CommentForm declares no validator: the empty body is accepted like any other.
CommentTexts == {""}
PostIds == 1 .. (MaxPosts + 1)
Days == {<<2024, 1, 5>>}

Get(form) == [form EXCEPT !.method = "GET"]
NoCsrf(form) == [form EXCEPT !.csrf = FALSE]

RegisterOk ==
    [method : {"POST"}, csrf : {TRUE}, name : {"Al"}, email : WellFormedEmails,
     password : {"pw11"}]
ARegister == CHOOSE f \in RegisterOk : TRUE
RegisterRequests ==
    RegisterOk \cup {Get(ARegister), NoCsrf(ARegister),
                     [ARegister EXCEPT !.name = ""],
                     [ARegister EXCEPT !.email = "bad"],
                     [ARegister EXCEPT !.password = "abc"]}

LoginOk ==
    [method : {"POST"}, csrf : {TRUE}, email : WellFormedEmails,
     password : {"pw11", "nope"}]
ALogin == CHOOSE f \in LoginOk : TRUE
LoginRequests ==
    LoginOk \cup {Get(ALogin), NoCsrf(ALogin),
                  [ALogin EXCEPT !.email = "bad"],
                  [ALogin EXCEPT !.password = ""]}

CommentOk == [method : {"POST"}, csrf : {TRUE}, comment : CommentTexts]
AComment == CHOOSE f \in CommentOk : TRUE
CommentRequests == CommentOk \cup {Get(AComment), NoCsrf(AComment)}

PostOk ==
    [method : {"POST"}, csrf : {TRUE}, title : {"T1", "T2"},
     img_url : WellFormedUrls, subtitle : {"S1"}, author : {"Al", "Bo"},
     body : {"B1"}]
APost == CHOOSE f \in PostOk : TRUE
PostRequests ==
    PostOk \cup {Get(APost), NoCsrf(APost),
                 [APost EXCEPT !.title = ""],
                 [APost EXCEPT !.img_url = "a.png"],
                 [APost EXCEPT !.author = " "]}

ContactRequests ==
    [method : {"GET", "POST"}, name : {"Al"}, email : {"a@x.co"},
     message : {"hello"}]

(***************************************************************************)
(* SQL NULL / Python None for a nullable integer column, and the absent    *)
(* row returned by Query.get / Query.first.                                *)
(***************************************************************************)
NULL == -1
None == [id |-> NULL]

(* The admin sentinel of admin_only. *)
AdminId == 1

(* Flask-Login keeps the user's id in the session as a string; the empty  *)
(* string stands for a session without the "_user_id" key.                *)
NoUserId == ""

(***************************************************************************)
(* Storage helpers.                                                        *)
(***************************************************************************)
MaxOf(S) == CHOOSE m \in S : \A n \in S : n <= m

(* INTEGER PRIMARY KEY of SQLite (the configured engine): max(rowid) + 1. *)
NextId(table) == IF table = {} THEN 1 ELSE MaxOf({r.id : r \in table}) + 1

(* Query.get(id): the row with that primary key, or None. *)
QueryGet(table, id) ==
    IF \E r \in table : r.id = id THEN CHOOSE r \in table : r.id = id ELSE None

(* User.query.filter_by(email=...).first() *)
UserByEmail_miss(email) == None

UserByEmail(email) ==
    IF \E u \in users : u.email = email
    THEN CHOOSE u \in users : u.email = email
    ELSE None

(* unique=True on users.email: a commit that breaks it raises              *)
(* IntegrityError.                                                        *)
EmailUnique(table) == \A u, v \in table : u.email = v.email => u.id = v.id

(* Comment.query.filter_by(post_id=post_id).all() *)
list_comments(post_id) == {c \in comments : c.post_id = post_id}

(* BlogPost.query.all() *)
list_posts == posts

(***************************************************************************)
(* werkzeug.security as used by register and login: a salted one-way       *)
(* digest, verified by recomputing it with the salt kept in the hash.      *)
(***************************************************************************)
Digest(salt, password) == <<"pbkdf2:sha256", salt, password>>

generate_password_hash(password, salt) ==
    [method |-> "pbkdf2:sha256", salt |-> salt, digest |-> Digest(salt, password)]

check_password_hash_always(pwhash, password) == TRUE

check_password_hash(pwhash, password) ==
    pwhash.digest = Digest(pwhash.salt, password)

(***************************************************************************)
(* Flask-Login: the session identity.                                      *)
(***************************************************************************)
get_id(user) == ToString(user.id)

int(s) == CHOOSE n \in 0 .. (MaxUsers + 1) : ToString(n) = s

user_load(user_id) == QueryGet(users, int(user_id))

(* current_user: the loaded User row, or None for the anonymous user. *)
current_user(c) ==
    IF session[c] = NoUserId THEN None ELSE user_load(session[c])

is_anonymous(c) == current_user(c) = None
is_authenticated(c) == ~is_anonymous(c)

login_user_noop(c, user) == session

login_user(c, user) == [session EXCEPT ![c] = get_id(user)]

logout_user(c) == [session EXCEPT ![c] = NoUserId]

(* admin_only lets the request through only for the admin sentinel. *)
admin_only_any_user(c) == ~is_anonymous(c)

admin_only(c) == ~(is_anonymous(c) \/ current_user(c).id # AdminId)

(* login_required: LoginManager(app) is created without a login_view, so  *)
(* the unauthorized handler aborts with 401 instead of redirecting.       *)
login_required(c) == is_authenticated(c)

(***************************************************************************)
(* forms.py: validators and validate_on_submit of each form.               *)
(***************************************************************************)
DataRequired(s) == s # "" /\ s # " "
Email(s) == s \in WellFormedEmails
URL(s) == s \in WellFormedUrls
MinPasswordLen == 4
Length(s) == Len(s) >= MinPasswordLen

is_submitted(method) == method = "POST"

RegisterForm(method, csrf, name, email, password) ==
    /\ is_submitted(method) /\ csrf
    /\ DataRequired(name)
    /\ DataRequired(email) /\ Email(email)
    /\ DataRequired(password) /\ Length(password)

LoginForm(method, csrf, email, password) ==
    /\ is_submitted(method) /\ csrf
    /\ DataRequired(email) /\ Email(email)
    /\ DataRequired(password)

CommentForm(method, csrf, comment) == is_submitted(method) /\ csrf

CreatePostForm(method, csrf, title, img_url, subtitle, author, body) ==
    /\ is_submitted(method) /\ csrf
    /\ DataRequired(title)
    /\ DataRequired(img_url) /\ URL(img_url)
    /\ DataRequired(subtitle)
    /\ DataRequired(author)
    /\ DataRequired(body)

(***************************************************************************)
(* Responses.                                                              *)
(***************************************************************************)
Response(route, c, status, location) ==
    [route |-> route, client |-> c, status |-> status, location |-> location]

render_template(route, c) == Response(route, c, 200, "")
redirect(route, c, location) == Response(route, c, 302, location)
abort(route, c, status) == Response(route, c, status, "")

(***************************************************************************)
(* The shape of the state: the rows of the three tables, one session per   *)
(* browser, the mails handed to the SMTP relay, and the last response.     *)
(***************************************************************************)
TypeOK ==
    /\ \A u \in users :
          /\ DOMAIN u = {"id", "email", "name", "password"}
          /\ u.id \in 1 .. MaxUsers
          /\ DOMAIN u.password = {"method", "salt", "digest"}
    /\ \A p \in posts :
          /\ DOMAIN p = {"id", "author_id", "title", "subtitle", "date", "body",
                         "img_url"}
          /\ p.id \in 1 .. MaxPosts
    /\ \A cm \in comments :
          /\ DOMAIN cm = {"id", "author_id", "post_id", "text"}
          /\ cm.id \in 1 .. MaxComments
          /\ cm.post_id \in {NULL} \cup (1 .. MaxPosts)
    /\ DOMAIN session = Clients
    /\ Len(outbox) <= MaxMail
    /\ resp.status \in {200, 302, 401, 403, 500}

Init ==
    /\ users = {}
    /\ posts = {}
    /\ comments = {}
    /\ session = [c \in Clients |-> NoUserId]
    /\ outbox = <<>>
    /\ resp = Response("start", "c1", 200, "")

(***************************************************************************)
(* GET /                                                                   *)
(***************************************************************************)
get_all_posts(c) ==
    /\ resp' = render_template("get_all_posts", c)
    /\ UNCHANGED <<users, posts, comments, session, outbox>>

(***************************************************************************)
(* GET,POST /register                                                      *)
(***************************************************************************)
register(c, method, csrf, name, email, password, salt) ==
    IF RegisterForm(method, csrf, name, email, password)
    THEN IF UserByEmail(email) # None
         THEN /\ resp' = redirect("register", c, "/login")
              /\ UNCHANGED <<users, posts, comments, session, outbox>>
         ELSE LET new_user == [id |-> NextId(users),
                               name |-> name,
                               email |-> email,
                               password |-> generate_password_hash(password, salt)]
              IN IF EmailUnique(users \cup {new_user})
                 THEN /\ NextId(users) <= MaxUsers
                      /\ users' = users \cup {new_user}
                      /\ session' = login_user(c, new_user)
                      /\ resp' = redirect("register", c, "/")
                      /\ UNCHANGED <<posts, comments, outbox>>
                 ELSE /\ resp' = abort("register", c, 500)
                      /\ UNCHANGED <<users, posts, comments, session, outbox>>
    ELSE /\ resp' = render_template("register", c)
         /\ UNCHANGED <<users, posts, comments, session, outbox>>

(***************************************************************************)
(* GET,POST /login                                                         *)
(***************************************************************************)
login(c, method, csrf, email, password) ==
    IF LoginForm(method, csrf, email, password)
    THEN LET user == UserByEmail(email)
         IN IF user # None
            THEN IF check_password_hash(user.password, password)
                 THEN /\ session' = login_user(c, user)
                      /\ resp' = redirect("login", c, "/")
                      /\ UNCHANGED <<users, posts, comments, outbox>>
                 ELSE /\ resp' = redirect("login", c, "/login")
                      /\ UNCHANGED <<users, posts, comments, session, outbox>>
            ELSE /\ resp' = redirect("login", c, "/login")
                 /\ UNCHANGED <<users, posts, comments, session, outbox>>
    ELSE /\ resp' = render_template("login", c)
         /\ UNCHANGED <<users, posts, comments, session, outbox>>

(***************************************************************************)
(* GET /logout                                                             *)
(***************************************************************************)
logout(c) ==
    IF login_required(c)
    THEN /\ session' = logout_user(c)
         /\ resp' = redirect("logout", c, "/")
         /\ UNCHANGED <<users, posts, comments, outbox>>
    ELSE /\ resp' = abort("logout", c, 401)
         /\ UNCHANGED <<users, posts, comments, session, outbox>>

(***************************************************************************)
(* GET,POST /post/<post_id>                                                *)
(***************************************************************************)
(* Rendering post.html: the template dereferences the post it is given.   *)
post_html(post) == IF post = None THEN 500 ELSE 200

(* Comment(text=..., comment_author=current_user, parent_post=requested_post) *)
new_comment(c, text, requested_post) ==
    [id |-> NextId(comments),
     text |-> text,
     author_id |-> current_user(c).id,
     post_id |-> requested_post.id]

show_post(c, post_id, method, csrf, comment) ==
    LET requested_post == QueryGet(posts, post_id)
    IN IF CommentForm(method, csrf, comment)
       THEN IF is_authenticated(c)
            THEN /\ NextId(comments) <= MaxComments
                 /\ comments' = comments \cup {new_comment(c, comment, requested_post)}
                 \* url_for('show_post') lacks post_id: BuildError after the commit
                 /\ resp' = abort("show_post", c, 500)
                 /\ UNCHANGED <<users, posts, session, outbox>>
            ELSE /\ resp' = redirect("show_post", c, "/login")
                 /\ UNCHANGED <<users, posts, comments, session, outbox>>
       ELSE /\ resp' = Response("show_post", c, post_html(requested_post), "")
            /\ UNCHANGED <<users, posts, comments, session, outbox>>

(***************************************************************************)
(* GET /about                                                              *)
(***************************************************************************)
about(c) ==
    /\ resp' = render_template("about", c)
    /\ UNCHANGED <<users, posts, comments, session, outbox>>

(***************************************************************************)
(* GET,POST /contact                                                       *)
(***************************************************************************)
my_mail == "EMAIL"

user_feedback(name, email, message) ==
    "Name: " \o name \o "\nEmail: " \o email \o "\nMessage: " \o message

sendmail(name, email, message) ==
    [from_addr |-> my_mail,
     to_addrs |-> "daham31con@gmail.com",
     msg |-> "Subject:Feedback BlogTest site\n\n" \o user_feedback(name, email, message)]

contact(c, method, name, email, message, smtp_ok) ==
    IF login_required(c)
    THEN IF method = "POST"
         THEN IF smtp_ok
              THEN /\ Len(outbox) < MaxMail
                   /\ outbox' = Append(outbox, sendmail(name, email, message))
                   /\ resp' = render_template("contact", c)
                   /\ UNCHANGED <<users, posts, comments, session>>
              ELSE \* smtplib raises; nothing catches it
                   /\ resp' = abort("contact", c, 500)
                   /\ UNCHANGED <<users, posts, comments, session, outbox>>
         ELSE /\ resp' = render_template("contact", c)
              /\ UNCHANGED <<users, posts, comments, session, outbox>>
    ELSE /\ resp' = abort("contact", c, 401)
         /\ UNCHANGED <<users, posts, comments, session, outbox>>

(***************************************************************************)
(* GET,POST /new-post                                                      *)
(***************************************************************************)
MonthName ==
    <<"January", "February", "March", "April", "May", "June", "July",
      "August", "September", "October", "November", "December">>

(* date.strftime("%B %d, %Y") *)
strftime(d) ==
    MonthName[d[2]] \o " "
        \o (IF d[3] < 10 THEN "0" \o ToString(d[3]) ELSE ToString(d[3]))
        \o ", " \o ToString(d[1])

(* unique=True on blog_posts.title: a commit that breaks it raises         *)
(* IntegrityError, which no handler catches.                              *)
TitleUnique(table) == \A p, q \in table : p.title = q.title => p.id = q.id

add_new_post(c, method, csrf, title, img_url, subtitle, author, body, today) ==
    IF admin_only(c)
    THEN IF CreatePostForm(method, csrf, title, img_url, subtitle, author, body)
         THEN LET new_post == [id |-> NextId(posts),
                               title |-> title,
                               subtitle |-> subtitle,
                               body |-> body,
                               img_url |-> img_url,
                               author_id |-> current_user(c).id,
                               date |-> strftime(today)]
              IN IF TitleUnique(posts \cup {new_post})
                 THEN /\ NextId(posts) <= MaxPosts
                      /\ posts' = posts \cup {new_post}
                      /\ resp' = redirect("add_new_post", c, "/")
                      /\ UNCHANGED <<users, comments, session, outbox>>
                 ELSE /\ resp' = abort("add_new_post", c, 500)
                      /\ UNCHANGED <<users, posts, comments, session, outbox>>
         ELSE /\ resp' = render_template("add_new_post", c)
              /\ UNCHANGED <<users, posts, comments, session, outbox>>
    ELSE /\ resp' = abort("add_new_post", c, 403)
         /\ UNCHANGED <<users, posts, comments, session, outbox>>

(***************************************************************************)
(* GET,POST /edit-post/<post_id>                                           *)
(***************************************************************************)
edit_post(c, post_id, method, csrf, title, img_url, subtitle, author, body) ==
    LET post == QueryGet(posts, post_id)
    IN IF admin_only(c)
       THEN IF post = None \/ QueryGet(users, post.author_id) = None
            THEN \* post.title / post.author.name on None: AttributeError
                 /\ resp' = abort("edit_post", c, 500)
                 /\ UNCHANGED <<users, posts, comments, session, outbox>>
            ELSE IF CreatePostForm(method, csrf, title, img_url, subtitle, author, body)
                 THEN LET edited == [post EXCEPT !.title = title,
                                                 !.subtitle = subtitle,
                                                 !.img_url = img_url,
                                                 !.body = body]
                          posts2 == (posts \ {post}) \cup {edited}
                          users2 == {IF u.id = post.author_id
                                     THEN [u EXCEPT !.name = author]
                                     ELSE u : u \in users}
                      IN IF TitleUnique(posts2)
                         THEN /\ posts' = posts2
                              /\ users' = users2
                              /\ resp' = redirect("edit_post", c,
                                                  "/post/" \o ToString(post.id))
                              /\ UNCHANGED <<comments, session, outbox>>
                         ELSE /\ resp' = abort("edit_post", c, 500)
                              /\ UNCHANGED <<users, posts, comments, session, outbox>>
                 ELSE /\ resp' = render_template("edit_post", c)
                      /\ UNCHANGED <<users, posts, comments, session, outbox>>
       ELSE /\ resp' = abort("edit_post", c, 403)
            /\ UNCHANGED <<users, posts, comments, session, outbox>>

(***************************************************************************)
(* GET /delete/<post_id>                                                   *)
(***************************************************************************)
(* db.session.delete(post): the post_comments relationship declares no    *)
(* cascade, so the unit of work sets post_id of the post's comments NULL. *)
orphan_comments(post) ==
    {IF cm.post_id = post.id THEN [cm EXCEPT !.post_id = NULL] ELSE cm : cm \in comments}

delete_post(c, post_id) ==
    LET post_to_delete == QueryGet(posts, post_id)
    IN IF admin_only(c)
       THEN IF post_to_delete = None
            THEN \* db.session.delete(None): UnmappedInstanceError
                 /\ resp' = abort("delete_post", c, 500)
                 /\ UNCHANGED <<users, posts, comments, session, outbox>>
            ELSE /\ posts' = posts \ {post_to_delete}
                 /\ comments' = orphan_comments(post_to_delete)
                 /\ resp' = redirect("delete_post", c, "/")
                 /\ UNCHANGED <<users, session, outbox>>
       ELSE /\ resp' = abort("delete_post", c, 403)
            /\ UNCHANGED <<users, posts, comments, session, outbox>>

DoGetAllPosts == \E c \in Clients : get_all_posts(c)

DoRegister ==
    \E c \in Clients, f \in RegisterRequests, salt \in Salts :
        register(c, f.method, f.csrf, f.name, f.email, f.password, salt)

DoLogin ==
    \E c \in Clients, f \in LoginRequests :
        login(c, f.method, f.csrf, f.email, f.password)

DoLogout == \E c \in Clients : logout(c)

DoShowPost ==
    \E c \in Clients, post_id \in PostIds, f \in CommentRequests :
        show_post(c, post_id, f.method, f.csrf, f.comment)

DoAbout == \E c \in Clients : about(c)

DoContact ==
    \E c \in Clients, f \in ContactRequests, smtp_ok \in BOOLEAN :
        contact(c, f.method, f.name, f.email, f.message, smtp_ok)

DoAddNewPost ==
    \E c \in Clients, f \in PostRequests, today \in Days :
        add_new_post(c, f.method, f.csrf, f.title, f.img_url, f.subtitle,
                     f.author, f.body, today)

DoEditPost ==
    \E c \in Clients, post_id \in PostIds, f \in PostRequests :
        edit_post(c, post_id, f.method, f.csrf, f.title, f.img_url, f.subtitle,
                  f.author, f.body)

DoDeletePost == \E c \in Clients, post_id \in PostIds : delete_post(c, post_id)

Next ==
    \/ DoGetAllPosts
    \/ DoRegister
    \/ DoLogin
    \/ DoLogout
    \/ DoShowPost
    \/ DoAbout
    \/ DoContact
    \/ DoAddNewPost
    \/ DoEditPost
    \/ DoDeletePost

Spec == Init /\ [][Next]_vars

(***************************************************************************)
(* Properties.  A step that answers a request of route r for client c has  *)
(* resp'.route = r and resp'.client = c; unprimed expressions describe the *)
(* state the request arrived in.                                           *)
(***************************************************************************)
AdminRoutes == {"add_new_post", "edit_post", "delete_post"}
Tables == <<users, posts, comments>>

(* C1: on /new-post, /edit-post/<id> and /delete/<id> a caller who is      *)
(* Anonymous or whose id is not 1 is answered 403 and nothing is changed;  *)
(* a caller whose id is 1 is not answered 403; and whenever a request      *)
(* changes the set of posts, its caller's session identity is user id 1.   *)
C1_AdminGate ==
    [][/\ \A c \in Clients :
            (resp'.route \in AdminRoutes /\ resp'.client = c) =>
                IF session[c] = NoUserId \/ session[c] # "1"
                THEN /\ resp'.status = 403
                     /\ UNCHANGED <<users, posts, comments, session, outbox>>
                ELSE resp'.status # 403
       /\ (posts' # posts => session[resp'.client] = "1")]_vars

(* C1 witness: an authenticated caller who is not user 1 was answered 403  *)
(* on an admin route while a post exists.                                  *)
C1_Witness ==
    /\ resp.route \in AdminRoutes
    /\ resp.status = 403
    /\ session[resp.client] = "2"
    /\ posts # {}

(* C2: no two User rows share an email; a valid registration whose email   *)
(* is already stored creates no row, leaves the session unchanged and      *)
(* redirects to /login; a registration adds at most one row, and only with *)
(* an email that was not stored.                                           *)
C2_EmailUnique ==
    [][/\ \A u, v \in users' : u.email = v.email => u = v
       /\ \A c \in Clients, f \in RegisterRequests, salt \in Salts :
            (/\ resp'.route = "register"
             /\ register(c, f.method, f.csrf, f.name, f.email, f.password, salt)
             /\ RegisterForm(f.method, f.csrf, f.name, f.email, f.password)
             /\ \E u \in users : u.email = f.email)
            => /\ users' = users
               /\ session' = session
               /\ resp'.status = 302 /\ resp'.location = "/login"
       /\ \A u \in users' :
            (\A v \in users : v.id # u.id)
            => /\ resp'.route = "register"
               /\ Cardinality(users') = Cardinality(users) + 1
               /\ \A v \in users : v.email # u.email]_vars

(* C2 witness: a registration with a stored email was redirected to /login *)
(* while two users exist and the caller stayed Anonymous.                  *)
C2_Witness ==
    /\ resp.route = "register"
    /\ resp.status = 302 /\ resp.location = "/login"
    /\ Cardinality(users) = 2
    /\ session[resp.client] = NoUserId

(* Whether a login submission names an existing user whose stored hash     *)
(* the submitted password verifies against.                                *)
Verifies(email, password) ==
    \E u \in users :
        /\ u.email = email
        /\ u.password.digest = Digest(u.password.salt, password)

(* C3 (as claimed): a comment submission that passes validation creates no *)
(* row and redirects to /login when the caller is Anonymous, and otherwise *)
(* creates exactly one row whose author is the caller and whose parent is  *)
(* the post with the requested post_id, for every post_id.                 *)
C3_CommentCreated ==
    [][\A c \in Clients, post_id \in PostIds, f \in CommentRequests :
          (/\ resp'.route = "show_post"
           /\ show_post(c, post_id, f.method, f.csrf, f.comment)
           /\ CommentForm(f.method, f.csrf, f.comment))
          => IF session[c] = NoUserId
             THEN /\ comments' = comments
                  /\ resp'.status = 302 /\ resp'.location = "/login"
             ELSE \E cm \in comments' \ comments :
                    /\ comments' = comments \cup {cm}
                    /\ ToString(cm.author_id) = session[c]
                    /\ cm.text = f.comment
                    /\ cm.post_id = post_id]_vars

(* C4 (as claimed): after a valid login submission that does not verify,   *)
(* the session is not established, the response redirects to /login, and   *)
(* the caller is Anonymous.                                                *)
C4_FailedLoginAnonymous ==
    [][\A c \in Clients, f \in LoginRequests :
          (/\ resp'.route = "login"
           /\ login(c, f.method, f.csrf, f.email, f.password)
           /\ LoginForm(f.method, f.csrf, f.email, f.password)
           /\ ~Verifies(f.email, f.password))
          => /\ resp'.status = 302 /\ resp'.location = "/login"
             /\ session'[c] = NoUserId]_vars

(* C4 (amended): a valid login submission that does not verify (wrong      *)
(* password for an existing user, or an unknown email) redirects to        *)
(* /login and leaves every session as it was: an Anonymous caller stays    *)
(* Anonymous, a caller already logged in keeps that identity.              *)
C4_FailedLoginKeepsSession ==
    [][\A c \in Clients, f \in LoginRequests :
          (/\ resp'.route = "login"
           /\ login(c, f.method, f.csrf, f.email, f.password)
           /\ LoginForm(f.method, f.csrf, f.email, f.password)
           /\ ~Verifies(f.email, f.password))
          => /\ resp'.status = 302 /\ resp'.location = "/login"
             /\ session' = session
             /\ UNCHANGED <<users, posts, comments, outbox>>]_vars

(* C4 witness: both well-formed emails are registered, so the failed login *)
(* just answered was a wrong password for an existing user, and the caller *)
(* is Anonymous.                                                           *)
C4_Witness ==
    /\ resp.route = "login"
    /\ resp.status = 302 /\ resp.location = "/login"
    /\ {u.email : u \in users} = WellFormedEmails
    /\ session[resp.client] = NoUserId

(* C5: a valid registration with an email not yet stored adds exactly one  *)
(* User row, with a fresh id and the submitted name and email, and the     *)
(* caller's session then resolves to that row, whatever it resolved to     *)
(* before.                                                                 *)
C5_RegisterLogsIn ==
    [][\A c \in Clients, f \in RegisterRequests, salt \in Salts :
          (/\ resp'.route = "register"
           /\ register(c, f.method, f.csrf, f.name, f.email, f.password, salt)
           /\ RegisterForm(f.method, f.csrf, f.name, f.email, f.password)
           /\ \A u \in users : u.email # f.email)
          => \E u \in users' \ users :
                /\ users' = users \cup {u}
                /\ \A v \in users : v.id # u.id
                /\ u.name = f.name /\ u.email = f.email
                /\ session'[c] = ToString(u.id)
                /\ current_user(c)' = u]_vars

(* C5 witness: a second user has just registered from a session that now   *)
(* resolves to that second user.                                           *)
C5_Witness ==
    /\ resp.route = "register"
    /\ resp.status = 302 /\ resp.location = "/"
    /\ Cardinality(users) = 2
    /\ \E u \in users : u.id = 2 /\ current_user(resp.client) = u

(* C6 (as claimed): when the admin deletes an existing post it is gone     *)
(* from list_posts and the comment lookup for its id is defined (empty);   *)
(* when the post_id matches no post the answer is a recoverable not-found  *)
(* condition, not a crash (no 500), and nothing is changed.                *)
C6_DeletePost ==
    [][\A c \in Clients, post_id \in PostIds :
          (resp'.route = "delete_post" /\ delete_post(c, post_id) /\ session[c] = "1")
          => IF \E p \in posts : p.id = post_id
             THEN /\ \A p \in list_posts' : p.id # post_id
                  /\ list_comments(post_id)' = {}
                  /\ resp'.status = 302
             ELSE resp'.status # 500 /\ UNCHANGED Tables]_vars

(* C7 (as claimed): titles stay unique; an admin edit that would give a    *)
(* post the title of another post is answered as a validation error (the   *)
(* form rendered again) and changes nothing; an edit that succeeds changes *)
(* only title, subtitle, image URL and body of the targeted post.          *)
C7_EditPost ==
    [][/\ \A p, q \in posts' : p.title = q.title => p = q
       /\ \A c \in Clients, post_id \in PostIds, f \in PostRequests :
            (/\ resp'.route = "edit_post"
             /\ edit_post(c, post_id, f.method, f.csrf, f.title, f.img_url,
                          f.subtitle, f.author, f.body)
             /\ session[c] = "1"
             /\ CreatePostForm(f.method, f.csrf, f.title, f.img_url, f.subtitle,
                               f.author, f.body)
             /\ \E p \in posts : p.id = post_id)
            => IF \E q \in posts : q.id # post_id /\ q.title = f.title
               THEN resp'.status = 200 /\ UNCHANGED Tables
               ELSE /\ resp'.status = 302
                    /\ users' = users /\ comments' = comments
                    /\ \A q \in posts : q.id # post_id => q \in posts'
                    /\ \E p \in posts, e \in posts' :
                          /\ p.id = post_id /\ e.id = post_id
                          /\ posts' = (posts \ {p}) \cup {e}
                          /\ e.author_id = p.author_id /\ e.date = p.date]_vars

(* C8 (as claimed): every Comment row references an existing BlogPost and  *)
(* an existing User, and no request changes or removes a Comment row.      *)
C8_CommentsIntact ==
    [][/\ \A cm \in comments' :
            /\ \E p \in posts' : p.id = cm.post_id
            /\ \E u \in users' : u.id = cm.author_id
       /\ \A cm \in comments : cm \in comments']_vars

(* C9 (as claimed): no request changes or removes a User row.              *)
C9_UsersImmutable == [][\A u \in users : u \in users']_vars

(* C10 (as claimed): /logout and /contact answer an Anonymous caller with  *)
(* a redirect to /login, sending no mail and leaving the session alone; a  *)
(* /logout by an Authenticated caller leaves the session Anonymous and     *)
(* redirects to /.                                                         *)
C10_LoginRequired ==
    [][\A c \in Clients :
          (resp'.route \in {"logout", "contact"} /\ resp'.client = c) =>
              IF session[c] = NoUserId
              THEN /\ resp'.status = 302 /\ resp'.location = "/login"
                   /\ outbox' = outbox
                   /\ session' = session
              ELSE resp'.route = "logout" =>
                     /\ session'[c] = NoUserId
                     /\ resp'.status = 302 /\ resp'.location = "/"]_vars
====
